---- MODULE Spec2Model ----
(***************************************************************************)
(* Model of app.py, the Selic investment simulator.                        *)
(*                                                                         *)
(* Two specifications share the definitions below:                         *)
(*   SpecFn  the three core functions called one after the other on        *)
(*           enumerated arguments: calculate_compounding_with_daily_data   *)
(*           (its loop one iteration per step), create_monthly_table and   *)
(*           create_annual_table;                                          *)
(*   Spec    the Streamlit script: the input widgets and the 'Calcular'    *)
(*           button handler, with the provider's reply chosen freely.      *)
(*                                                                         *)
(* Numbers.  Python floats are modelled as exact fixed-point numbers: a    *)
(* money value is an integer count of 1/Unit currency units, and Unit is   *)
(* chosen so that every product and quotient the loop forms within MaxLen  *)
(* iterations is exact; the properties state products cross-multiplied, so *)
(* a truncated quotient would violate them.  Floating-point rounding is    *)
(* outside the model.                                                      *)
(* Rates are whole percents; tax rates are tenths of a percent.            *)
(***************************************************************************)
EXTENDS Integers, Sequences, FiniteSets, TLC

\* ---------------------------------------------------------------- bounds
\* Longest rate series the provider returns.
MaxLen == 3

RECURSIVE Pow2(_)
Pow2(n) == IF n = 0 THEN 1 ELSE 2 * Pow2(n - 1)

\* Fixed-point denominator: 40 absorbs ir_rate/100 for every tax option
\* (9/40, 1/5, 7/40, 3/20), one factor 2 absorbs each application of a rate.
Unit == 40 * Pow2(MaxLen)

\* Calendar window of the enumerated series.
Years == {2020, 2021}
Months == {1, 2}
Days == {1, 15}
\* 'Selic % ao dia' values, in percent (factors 1/2 and 3/2).
Rates == {-50, 50}
\* st.number_input values, in currency units (min_value=0.0).
Principals == {0, 1000}
Deposits == {0, 100}

\* ----------------------------------------------------------- data model
\* The selectbox options 22.5, 20.0, 17.5, 15.0 in tenths of a percent.
IRRates == {225, 200, 175, 150}

AllDates == [year : Years, month : Months, day : Days]

DateLT(a, b) ==
    \/ a.year < b.year
    \/ a.year = b.year /\ a.month < b.month
    \/ a.year = b.year /\ a.month = b.month /\ a.day < b.day

\* float(x) of a widget value given in currency units.
ToFloat(x) == x * Unit

\* A pandas DataFrame: its column labels and its rows. None shares the shape
\* so that a variable may hold either.
DataFrame(cols, rws) == [none |-> FALSE, columns |-> cols, rows |-> rws]
None == [none |-> TRUE, columns |-> <<>>, rows |-> <<>>]

\* pd.DataFrame(list of dicts): the columns are the dicts' keys, and an empty
\* list (or no argument) gives a frame with neither columns nor rows.
PdDataFrame(cols, records) ==
    IF records = <<>> THEN DataFrame(<<>>, <<>>) ELSE DataFrame(cols, records)

\* DataFrame.empty: some axis has length 0.
IsEmpty(df) == Len(df.columns) = 0 \/ Len(df.rows) = 0

HasColumn(df, c) == \E k \in 1..Len(df.columns) : df.columns[k] = c

SelicColumns == <<"Data", "Selic % ao dia">>
DailyColumns ==
    <<"Data", "Valor Bruto", "Rendimento Bruto", "IR a Pagar", "Valor Liquido">>
MonthlyColumns ==
    <<"Ano/Mes", "Valor Bruto", "Rendimento Bruto", "IR a Pagar", "Valor Liquido">>
AnnualColumns ==
    <<"Ano", "Valor Bruto", "Rendimento Bruto", "IR a Pagar", "Valor Liquido">>

\* --------------------------------------------------- enumerated inputs
SelicRows == [Data : AllDates, Selic : Rates]

RECURSIVE SeriesOfLen(_)
SeriesOfLen(n) ==
    IF n = 0 THEN {<<>>}
    ELSE UNION {{Append(s, r) :
                    r \in {x \in SelicRows :
                              s = <<>> \/ DateLT(s[Len(s)].Data, x.Data)}} :
                s \in SeriesOfLen(n - 1)}

\* Every date-ascending rate series of at most MaxLen observations.
AllSeries == UNION {SeriesOfLen(n) : n \in 0..MaxLen}

\* ------------------------------- calculate_compounding_with_daily_data
\* Line 56: the early return.
EarlyReturn(selic_df) == selic_df.none \/ IsEmpty(selic_df)

\* Aporte without the `len(daily_results) > 0` test.
Aporte_AlsoFirstEntry(n_results, date, monthly_deposit) ==
    IF date.day = 1 THEN ToFloat(monthly_deposit) ELSE 0

\* Lines 71-73: the deposit added before the day's rate.
Aporte(n_results, date, monthly_deposit) ==
    IF n_results > 0 /\ date.day = 1 THEN ToFloat(monthly_deposit) ELSE 0

\* Line 76: current_value * (1 + rate / 100).
ApplyRate(value, rate) == (value * (100 + rate)) \div 100

\* IRaPagar floored at zero.
IRaPagar_Clamped(rendimento_bruto, ir) ==
    IF rendimento_bruto > 0 THEN (rendimento_bruto * ir) \div 1000 ELSE 0

\* Line 79: rendimento_bruto * (ir_rate / 100), ir_rate in tenths of a percent.
IRaPagar(rendimento_bruto, ir) == (rendimento_bruto * ir) \div 1000

\* LoopBody with the deposit added after the day's rate.
LoopBody_RateBeforeDeposit(st, row, monthly_deposit, ir) ==
    LET date == row.Data
        aporte == Aporte(Len(st.daily_results), date, monthly_deposit)
        current == ApplyRate(st.current_value, row.Selic) + aporte
        invested == st.total_invested + aporte
        rendimento_bruto == current - invested
        ir_a_pagar == IRaPagar(rendimento_bruto, ir)
        valor_liquido == current - ir_a_pagar
    IN  [current_value |-> current,
         total_invested |-> invested,
         daily_results |-> Append(st.daily_results,
             [Data |-> date,
              ValorBruto |-> current,
              RendimentoBruto |-> rendimento_bruto,
              IRaPagar |-> ir_a_pagar,
              ValorLiquido |-> valor_liquido])]

\* LoopBody taking the gain against the total before the day's deposit.
LoopBody_GainOnOldTotal(st, row, monthly_deposit, ir) ==
    LET date == row.Data
        aporte == Aporte(Len(st.daily_results), date, monthly_deposit)
        current == ApplyRate(st.current_value + aporte, row.Selic)
        invested == st.total_invested + aporte
        rendimento_bruto == current - st.total_invested
        ir_a_pagar == IRaPagar(rendimento_bruto, ir)
        valor_liquido == current - ir_a_pagar
    IN  [current_value |-> current,
         total_invested |-> invested,
         daily_results |-> Append(st.daily_results,
             [Data |-> date,
              ValorBruto |-> current,
              RendimentoBruto |-> rendimento_bruto,
              IRaPagar |-> ir_a_pagar,
              ValorLiquido |-> valor_liquido])]

\* LoopBody carrying the value net of tax into the next day.
LoopBody_NetCarried(st, row, monthly_deposit, ir) ==
    LET date == row.Data
        aporte == Aporte(Len(st.daily_results), date, monthly_deposit)
        current == ApplyRate(st.current_value + aporte, row.Selic)
        invested == st.total_invested + aporte
        rendimento_bruto == current - invested
        ir_a_pagar == IRaPagar(rendimento_bruto, ir)
        valor_liquido == current - ir_a_pagar
    IN  [current_value |-> valor_liquido,
         total_invested |-> invested,
         daily_results |-> Append(st.daily_results,
             [Data |-> date,
              ValorBruto |-> current,
              RendimentoBruto |-> rendimento_bruto,
              IRaPagar |-> ir_a_pagar,
              ValorLiquido |-> valor_liquido])]

\* Lines 67-88: one iteration of the loop on the accumulator
\* st = [current_value, total_invested, daily_results].
LoopBody(st, row, monthly_deposit, ir) ==
    LET date == row.Data
        aporte == Aporte(Len(st.daily_results), date, monthly_deposit)
        current == ApplyRate(st.current_value + aporte, row.Selic)
        invested == st.total_invested + aporte
        rendimento_bruto == current - invested
        ir_a_pagar == IRaPagar(rendimento_bruto, ir)
        valor_liquido == current - ir_a_pagar
    IN  [current_value |-> current,
         total_invested |-> invested,
         daily_results |-> Append(st.daily_results,
             [Data |-> date,
              ValorBruto |-> current,
              RendimentoBruto |-> rendimento_bruto,
              IRaPagar |-> ir_a_pagar,
              ValorLiquido |-> valor_liquido])]

\* LoopDone stopping one row early.
LoopDone_OffByOne(df, results) == Len(results) >= Len(df.rows) - 1

\* Line 67: iterrows is exhausted once every row has produced its entry.
LoopDone(df, results) == Len(results) >= Len(df.rows)

\* Lines 61-64: the accumulator before the loop.
LoopStart(principal) ==
    [current_value |-> ToFloat(principal),
     total_invested |-> ToFloat(principal),
     daily_results |-> <<>>]

RECURSIVE RunLoop(_, _, _, _)
RunLoop(st, df, monthly_deposit, ir) ==
    IF LoopDone(df, st.daily_results) THEN st
    ELSE RunLoop(LoopBody(st, df.rows[Len(st.daily_results) + 1],
                          monthly_deposit, ir),
                 df, monthly_deposit, ir)

\* Lines 50-90: the function as a whole.
calculate_compounding_with_daily_data(principal, monthly_deposit, ir, selic_df) ==
    IF EarlyReturn(selic_df) THEN PdDataFrame(<<>>, <<>>)
    ELSE PdDataFrame(DailyColumns,
             RunLoop(LoopStart(principal), selic_df, monthly_deposit,
                     ir).daily_results)

\* ------------------------------------------------------ summary tables
\* A call's outcome: the value returned, or the exception that escaped.
Returned(v) == [raised |-> "", value |-> v]
Raised(e) == [raised |-> e, value |-> None]

\* AnoMes with the format '%m'.
AnoMes_MonthOnly(date) == <<date.month>>

\* strftime('%Y-%m') of a date: the year and the month, the day dropped.
AnoMes(date) == <<date.year, date.month>>
\* .dt.year of a date.
Ano(date) == date.year

RECURSIVE TakeRows(_, _, _)
TakeRows(rws, keep, i) ==
    IF i > Len(rws) THEN <<>>
    ELSE (IF i \in keep THEN <<rws[i]>> ELSE <<>>) \o TakeRows(rws, keep, i + 1)

\* GroupbyTail as groupby(key).head(1): the first row of each key.
GroupbyTail_Head(rws, keys) ==
    TakeRows(rws,
             {i \in 1..Len(rws) : \A j \in 1..(i - 1) : keys[j] # keys[i]},
             1)

\* groupby(key).tail(1).reset_index(drop=True): the rows that are the last of
\* their key, in the frame's own row order. keys[i] is the key of row i.
GroupbyTail(rws, keys) ==
    TakeRows(rws,
             {i \in 1..Len(rws) : \A j \in (i + 1)..Len(rws) : keys[j] # keys[i]},
             1)

\* Lines 93-103.
create_monthly_table(daily_df) ==
    IF ~HasColumn(daily_df, "Data") THEN Raised("KeyError")
    ELSE LET rws == [i \in 1..Len(daily_df.rows) |->
                        [AnoMes |-> AnoMes(daily_df.rows[i].Data),
                         ValorBruto |-> daily_df.rows[i].ValorBruto,
                         RendimentoBruto |-> daily_df.rows[i].RendimentoBruto,
                         IRaPagar |-> daily_df.rows[i].IRaPagar,
                         ValorLiquido |-> daily_df.rows[i].ValorLiquido]]
             keys == [i \in 1..Len(rws) |-> rws[i].AnoMes]
         IN  Returned(DataFrame(MonthlyColumns, GroupbyTail(rws, keys)))

\* Lines 105-115.
create_annual_table(daily_df) ==
    IF ~HasColumn(daily_df, "Data") THEN Raised("KeyError")
    ELSE LET rws == [i \in 1..Len(daily_df.rows) |->
                        [Ano |-> Ano(daily_df.rows[i].Data),
                         ValorBruto |-> daily_df.rows[i].ValorBruto,
                         RendimentoBruto |-> daily_df.rows[i].RendimentoBruto,
                         IRaPagar |-> daily_df.rows[i].IRaPagar,
                         ValorLiquido |-> daily_df.rows[i].ValorLiquido]]
             keys == [i \in 1..Len(rws) |-> rws[i].Ano]
         IN  Returned(DataFrame(AnnualColumns, GroupbyTail(rws, keys)))

\* ------------------------------------------------- get_selic_data_daily
\* The provider's reply to requests.get: a transport or HTTP-status failure,
\* or a JSON list of {"data": "dd/mm/yyyy", "valor": "<percent>"} objects.
\* The dd/mm/yyyy text is the tuple <<dd, mm, yyyy>>.
JsonOf(series) ==
    [i \in 1..Len(series) |->
        [data |-> <<series[i].Data.day, series[i].Data.month, series[i].Data.year>>,
         valor |-> series[i].Selic]]

Responses ==
    {[kind |-> "error", data |-> <<>>]}
        \cup {[kind |-> "json", data |-> JsonOf(s)] : s \in AllSeries}

\* pd.to_datetime(text, format='%d/%m/%Y').
ToDatetime(text) == [year |-> text[3], month |-> text[2], day |-> text[1]]

Element(kind, text, value) == [kind |-> kind, text |-> text, value |-> value]

\* Lines 8-47. The st.cache_data key holds end_date = datetime.now(), which
\* differs on every click, so every call runs the body. The outcome carries
\* the elements the body shows.
get_selic_data_daily(resp) ==
    IF resp.kind = "error"
    THEN [raised |-> "", value |-> None,
          shown |-> <<Element("error", "Erro ao buscar os dados da Selic", <<>>)>>]
    ELSE LET df == PdDataFrame(<<"data", "valor">>, resp.data)
         IN  IF ~HasColumn(df, "data")
             THEN [raised |-> "KeyError", value |-> None, shown |-> <<>>]
             ELSE [raised |-> "", 
                   value |-> DataFrame(SelicColumns,
                       [i \in 1..Len(df.rows) |->
                           [Data |-> ToDatetime(df.rows[i].data),
                            Selic |-> df.rows[i].valor]]),
                   shown |-> <<Element("info", "Dados da Selic diaria obtidos", <<>>)>>]

\* ------------------------------------------------------------- state
VARIABLES
    pc,                 \* position of the script or of the function calls
    valor_inicial,      \* number_input: the principal
    aporte_mensal,      \* number_input: the monthly deposit
    ir_rate,            \* selectbox: the tax rate
    response,           \* the provider's reply to the last request
    selic_data_diaria,  \* the rate frame, or None
    current_value,      \* loop local of calculate_compounding_with_daily_data
    total_invested,     \* loop local
    daily_results,      \* loop local: the entries appended so far
    tabela_diaria,      \* the daily ledger returned
    tabela_mensal,      \* outcome of create_monthly_table
    tabela_anual,       \* outcome of create_annual_table
    ui,                 \* the elements the script has shown, in order
    exc                 \* the exception that escaped the script, "" if none

vars == <<pc, valor_inicial, aporte_mensal, ir_rate, response, selic_data_diaria,
          current_value, total_invested, daily_results, tabela_diaria,
          tabela_mensal, tabela_anual, ui, exc>>

NoResponse == [kind |-> "none", data |-> <<>>]
Unset == Returned(None)

\* ------------------------------------------------- SpecFn: the functions
\* The arguments of one run: any widget values, and None, a frame without
\* rows, or a date-ascending rate frame.
InitFn ==
    /\ pc = "call"
    /\ valor_inicial \in Principals
    /\ aporte_mensal \in Deposits
    /\ ir_rate \in IRRates
    /\ response = NoResponse
    /\ selic_data_diaria \in {None} \cup {DataFrame(SelicColumns, s) : s \in AllSeries}
    /\ current_value = 0
    /\ total_invested = 0
    /\ daily_results = <<>>
    /\ tabela_diaria = None
    /\ tabela_mensal = Unset
    /\ tabela_anual = Unset
    /\ ui = <<>>
    /\ exc = ""

\* Lines 56-64: the early return, or the locals before the loop.
Enter ==
    /\ pc = "call"
    /\ IF EarlyReturn(selic_data_diaria)
       THEN /\ tabela_diaria' = PdDataFrame(<<>>, <<>>)
            /\ pc' = "returned"
            /\ UNCHANGED <<current_value, total_invested, daily_results>>
       ELSE /\ current_value' = LoopStart(valor_inicial).current_value
            /\ total_invested' = LoopStart(valor_inicial).total_invested
            /\ daily_results' = LoopStart(valor_inicial).daily_results
            /\ pc' = "loop"
            /\ UNCHANGED tabela_diaria
    /\ UNCHANGED <<valor_inicial, aporte_mensal, ir_rate, response,
                   selic_data_diaria, tabela_mensal, tabela_anual, ui, exc>>

\* Lines 67-88: one iteration.
Iterate ==
    /\ pc = "loop"
    /\ ~LoopDone(selic_data_diaria, daily_results)
    /\ LET st == LoopBody([current_value |-> current_value,
                           total_invested |-> total_invested,
                           daily_results |-> daily_results],
                          selic_data_diaria.rows[Len(daily_results) + 1],
                          aporte_mensal, ir_rate)
       IN  /\ current_value' = st.current_value
           /\ total_invested' = st.total_invested
           /\ daily_results' = st.daily_results
    /\ UNCHANGED <<pc, valor_inicial, aporte_mensal, ir_rate, response,
                   selic_data_diaria, tabela_diaria, tabela_mensal,
                   tabela_anual, ui, exc>>

\* Line 90: return pd.DataFrame(daily_results).
Return ==
    /\ pc = "loop"
    /\ LoopDone(selic_data_diaria, daily_results)
    /\ tabela_diaria' = PdDataFrame(DailyColumns, daily_results)
    /\ pc' = "returned"
    /\ UNCHANGED <<valor_inicial, aporte_mensal, ir_rate, response,
                   selic_data_diaria, current_value, total_invested,
                   daily_results, tabela_mensal, tabela_anual, ui, exc>>

\* create_monthly_table called on the ledger returned.
Monthly ==
    /\ pc = "returned"
    /\ tabela_mensal' = create_monthly_table(tabela_diaria)
    /\ pc' = "monthly"
    /\ UNCHANGED <<valor_inicial, aporte_mensal, ir_rate, response,
                   selic_data_diaria, current_value, total_invested,
                   daily_results, tabela_diaria, tabela_anual, ui, exc>>

\* create_annual_table called on the ledger returned.
Annual ==
    /\ pc = "monthly"
    /\ tabela_anual' = create_annual_table(tabela_diaria)
    /\ pc' = "annual"
    /\ UNCHANGED <<valor_inicial, aporte_mensal, ir_rate, response,
                   selic_data_diaria, current_value, total_invested,
                   daily_results, tabela_diaria, tabela_mensal, ui, exc>>

NextFn == Enter \/ Iterate \/ Return \/ Monthly \/ Annual

SpecFn == InitFn /\ [][NextFn]_vars

\* ------------------------------------------------ Spec: the Streamlit app
\* Lines 163-208: what the script shows for a ledger that is not empty.
ShowTables(principal, monthly_deposit, daily, monthly, annual) ==
    <<Element("subheader", "Resultados Diarios Detalhados", <<>>),
      Element("write", "Valor inicial do investimento", <<principal>>),
      Element("write", "Aporte mensal", <<monthly_deposit>>),
      Element("dataframe", "tabela_diaria", <<>>),
      Element("subheader", "Resumo Mensal", <<>>),
      Element("dataframe", "tabela_mensal", <<>>),
      Element("subheader", "Resumo Anual", <<>>),
      Element("dataframe", "tabela_anual", <<>>),
      Element("success", "Valor Final do Investimento (Bruto)",
              <<daily.rows[Len(daily.rows)].ValorBruto>>),
      Element("success", "Valor Final do Investimento (Liquido)",
              <<daily.rows[Len(daily.rows)].ValorLiquido>>)>>

\* Lines 148-213: the body of `if st.button('Calcular')` for one reply of the
\* provider. An exception that no handler catches ends the script.
Handler(principal, monthly_deposit, ir, resp) ==
    LET got == get_selic_data_daily(resp)
        blank == [selic |-> None, daily |-> None, monthly |-> Unset,
                  annual |-> Unset, shown |-> got.shown, raised |-> ""]
    IN  IF got.raised # "" THEN [blank EXCEPT !.raised = got.raised]
        ELSE IF got.value.none
        THEN [blank EXCEPT !.shown = got.shown \o
                 <<Element("warning", "Nao foi possivel obter os dados da API", <<>>)>>]
        ELSE LET daily == calculate_compounding_with_daily_data(
                              principal, monthly_deposit, ir, got.value)
                 monthly == create_monthly_table(daily)
                 annual == create_annual_table(daily)
             IN  IF IsEmpty(daily)
                 THEN [blank EXCEPT !.selic = got.value, !.daily = daily, !.shown = got.shown \o
                          <<Element("warning", "Nao foi possivel gerar a tabela", <<>>)>>]
                 ELSE IF monthly.raised # ""
                 THEN [blank EXCEPT !.selic = got.value, !.daily = daily,
                          !.raised = monthly.raised]
                 ELSE IF annual.raised # ""
                 THEN [blank EXCEPT !.selic = got.value, !.daily = daily,
                          !.monthly = monthly, !.raised = annual.raised]
                 ELSE [selic |-> got.value, daily |-> daily, monthly |-> monthly,
                       annual |-> annual, raised |-> "",
                       shown |-> got.shown \o
                           ShowTables(principal, monthly_deposit, daily,
                                      monthly.value, annual.value)]

\* Lines 118-145: the page as first served, the widgets at their defaults
\* (value=1000.0, value=100.0, index=3), the button not pressed.
Init ==
    /\ pc = "idle"
    /\ valor_inicial = 1000
    /\ aporte_mensal = 100
    /\ ir_rate = 150
    /\ response = NoResponse
    /\ selic_data_diaria = None
    /\ current_value = 0
    /\ total_invested = 0
    /\ daily_results = <<>>
    /\ tabela_diaria = None
    /\ tabela_mensal = Unset
    /\ tabela_anual = Unset
    /\ ui = <<>>
    /\ exc = ""

\* The user edits the widgets: Streamlit runs the script again from the top
\* with st.button false, so nothing below line 148 is shown.
Input ==
    /\ valor_inicial' \in Principals
    /\ aporte_mensal' \in Deposits
    /\ ir_rate' \in IRRates
    /\ pc' = "idle"
    /\ response' = NoResponse
    /\ selic_data_diaria' = None
    /\ tabela_diaria' = None
    /\ tabela_mensal' = Unset
    /\ tabela_anual' = Unset
    /\ ui' = <<>>
    /\ exc' = ""
    /\ UNCHANGED <<current_value, total_invested, daily_results>>

\* The user presses 'Calcular' on the page as served and the provider replies.
Calcular ==
    /\ pc = "idle"
    /\ \E resp \in Responses :
          LET out == Handler(valor_inicial, aporte_mensal, ir_rate, resp)
          IN  /\ response' = resp
              /\ selic_data_diaria' = out.selic
              /\ tabela_diaria' = out.daily
              /\ tabela_mensal' = out.monthly
              /\ tabela_anual' = out.annual
              /\ ui' = out.shown
              /\ exc' = out.raised
    /\ pc' = "done"
    /\ UNCHANGED <<valor_inicial, aporte_mensal, ir_rate, current_value,
                   total_invested, daily_results>>

Next == Input \/ Calcular

Spec == Init /\ [][Next]_vars

\* ======================================================== properties
\* The rate observations and the entries a run of the function has so far.
Rows == selic_data_diaria.rows
Returning == pc \in {"returned", "monthly", "annual"}

\* The deposit the claims expect at observation i.
ExpectedDeposit(i) ==
    IF i > 1 /\ Rows[i].Data.day = 1 THEN aporte_mensal * Unit ELSE 0

\* Principal plus every deposit expected up to and including observation i.
TotalContributed(i) ==
    valor_inicial * Unit
        + aporte_mensal * Unit * Cardinality({j \in 2..i : Rows[j].Data.day = 1})

\* C1: the first entry's gross value is principal * (1 + rate_1/100) with no
\* deposit, even on the 1st of a month; every later entry's gross value is
\* (previous gross value + d_i) * (1 + rate_i/100), d_i the monthly deposit
\* when the date's day is 1 and 0 otherwise.
C1_GrossRecurrence ==
    \A i \in 1..Len(daily_results) :
        LET prev == IF i = 1 THEN valor_inicial * Unit
                    ELSE daily_results[i - 1].ValorBruto + ExpectedDeposit(i)
        IN  100 * daily_results[i].ValorBruto = prev * (100 + Rows[i].Selic)

\* A finished run whose first date is the 1st of a month and which later
\* meets another 1st, with a positive deposit.
C1_Witness ==
    /\ pc = "returned"
    /\ aporte_mensal > 0
    /\ valor_inicial > 0
    /\ Len(daily_results) >= 3
    /\ Rows[1].Data.day = 1
    /\ Rows[3].Data.day = 1

\* C2: total_invested starts at the principal, never decreases, and from one
\* entry to the next grows by exactly the monthly deposit when the entry is
\* not the first and its date's day is 1, and by exactly 0 otherwise.
C2_TotalContributedSteps ==
    [][/\ (pc = "call" /\ pc' = "loop") => total_invested' = valor_inicial * Unit
       /\ (pc = "loop" /\ Len(daily_results') = Len(daily_results) + 1) =>
             /\ total_invested' =
                    total_invested + ExpectedDeposit(Len(daily_results'))
             /\ total_invested' >= total_invested]_vars

\* A run that has received one deposit (on a 1st that is not the first entry)
\* and then an entry in a later month whose 1st is absent from the series.
C2_Witness ==
    /\ pc = "loop"
    /\ aporte_mensal > 0
    /\ Len(daily_results) = 3
    /\ Rows[1].Data.day = 1
    /\ Rows[2].Data.day = 1
    /\ Rows[3].Data.day # 1
    /\ <<Rows[3].Data.year, Rows[3].Data.month>>
           # <<Rows[2].Data.year, Rows[2].Data.month>>
    /\ total_invested = (valor_inicial + aporte_mensal) * Unit

\* C3: every entry has grossGain = grossValue - totalContributed, taxDue =
\* grossGain * taxRatePercent/100 and netValue = grossValue - taxDue.
C3_EntryRelations ==
    \A i \in 1..Len(daily_results) :
        LET e == daily_results[i]
        IN  /\ e.RendimentoBruto = e.ValorBruto - TotalContributed(i)
            /\ 1000 * e.IRaPagar = e.RendimentoBruto * ir_rate
            /\ e.ValorLiquido = e.ValorBruto - e.IRaPagar

\* A finished run with a deposit made and an entry whose gain and tax are
\* positive.
C3_Witness ==
    /\ pc = "returned"
    /\ aporte_mensal > 0
    /\ \E i \in 2..Len(daily_results) :
          /\ Rows[i].Data.day = 1
          /\ daily_results[i].RendimentoBruto > 0
          /\ daily_results[i].IRaPagar > 0

C8_OneEntryPerObservation ==
    Returning =>
        /\ ~tabela_diaria.none
        /\ Len(tabela_diaria.rows) = Len(Rows)
        /\ \A i \in 1..Len(Rows) : tabela_diaria.rows[i].Data = Rows[i].Data
        /\ (selic_data_diaria.none \/ Rows = <<>>) => tabela_diaria.rows = <<>>

\* A ledger returned for a series of several observations.
C8_Witness ==
    /\ pc = "returned"
    /\ Len(Rows) >= 2
    /\ Len(tabela_diaria.rows) = Len(Rows)

\* C10: a run with the same principal, deposit and series under any other
\* tax rate has the same dates, gross values and gross gains entry by entry,
\* and within a run entries of equal gross gain have equal tax.
C10_TaxNeverFeedsBack ==
    Returning =>
        /\ \A other_ir \in IRRates :
              LET other == calculate_compounding_with_daily_data(
                               valor_inicial, aporte_mensal, other_ir,
                               selic_data_diaria)
              IN  /\ Len(other.rows) = Len(tabela_diaria.rows)
                  /\ \A i \in 1..Len(other.rows) :
                        /\ other.rows[i].Data = tabela_diaria.rows[i].Data
                        /\ other.rows[i].ValorBruto = tabela_diaria.rows[i].ValorBruto
                        /\ other.rows[i].RendimentoBruto
                               = tabela_diaria.rows[i].RendimentoBruto
        /\ \A i, j \in 1..Len(tabela_diaria.rows) :
              tabela_diaria.rows[i].RendimentoBruto
                      = tabela_diaria.rows[j].RendimentoBruto
                  => tabela_diaria.rows[i].IRaPagar = tabela_diaria.rows[j].IRaPagar

\* A returned ledger of several entries with a non-zero tax on an entry that
\* is not the last, so that a tax fed back would change what follows.
C10_Witness ==
    /\ pc = "returned"
    /\ Len(tabela_diaria.rows) >= 3
    /\ tabela_diaria.rows[1].IRaPagar # 0
    /\ tabela_diaria.rows[2].IRaPagar # 0

\* The four values a summary row copies from a ledger entry.
Values(r) == <<r.ValorBruto, r.RendimentoBruto, r.IRaPagar, r.ValorLiquido>>

Ledger == tabela_diaria.rows
MonthOf(i) == <<Ledger[i].Data.year, Ledger[i].Data.month>>
YearOf(i) == Ledger[i].Data.year

\* The place in the ledger of the last entry whose period is `period`;
\* periods[i] is the period of entry i. 0 when there is none.
LastIndexOf(period, periods) ==
    LET at == {i \in 1..Len(periods) : periods[i] = period}
    IN  IF at = {} THEN 0 ELSE CHOOSE i \in at : \A j \in at : j <= i

\* summary (its period keys in `keys`) holds one row per distinct period of
\* the ledger, each with the values of the period's last entry, in the order
\* of those entries in the ledger.
OnePerPeriod(summary, keys, periods) ==
    /\ Len(summary) = Cardinality({periods[i] : i \in 1..Len(periods)})
    /\ \A k \in 1..Len(summary) :
          /\ LastIndexOf(keys[k], periods) > 0
          /\ Values(summary[k]) = Values(Ledger[LastIndexOf(keys[k], periods)])
    /\ \A k1, k2 \in 1..Len(summary) :
          k1 < k2 => LastIndexOf(keys[k1], periods) < LastIndexOf(keys[k2], periods)

MonthlyCalled == pc \in {"monthly", "annual"}
AnnualCalled == pc = "annual"

\* C5: for a date-ordered ledger the monthly table has exactly one summary
\* per distinct (year, month), carrying the four values of that month's last
\* entry, in the ledger's order; the annual table likewise per year.
C5_LastEntryPerPeriod ==
    /\ (MonthlyCalled /\ ~IsEmpty(tabela_diaria)) =>
          /\ tabela_mensal.raised = ""
          /\ OnePerPeriod(tabela_mensal.value.rows,
                 [k \in 1..Len(tabela_mensal.value.rows) |->
                     tabela_mensal.value.rows[k].AnoMes],
                 [i \in 1..Len(Ledger) |-> MonthOf(i)])
    /\ (AnnualCalled /\ ~IsEmpty(tabela_diaria)) =>
          /\ tabela_anual.raised = ""
          /\ OnePerPeriod(tabela_anual.value.rows,
                 [k \in 1..Len(tabela_anual.value.rows) |->
                     tabela_anual.value.rows[k].Ano],
                 [i \in 1..Len(Ledger) |-> YearOf(i)])

\* Both tables made from a ledger that has a month of several entries, the
\* same month number in two years, and two months of one year.
C5_Witness ==
    /\ AnnualCalled
    /\ Len(Ledger) >= 3
    /\ MonthOf(1) = MonthOf(2)
    /\ YearOf(2) # YearOf(3)
    /\ Ledger[1].Data.month = Ledger[3].Data.month
    /\ Values(Ledger[1]) # Values(Ledger[2])
    /\ Len(tabela_mensal.value.rows) = 2
    /\ Len(tabela_anual.value.rows) = 2

\* C6: for a ledger that is not empty, the last monthly summary is for the
\* month of the ledger's final date and has the final entry's values, and the
\* last annual summary is for the year of the final date and has them too.
C6_LastSummaryIsFinalEntry ==
    /\ (MonthlyCalled /\ ~IsEmpty(tabela_diaria)) =>
          LET m == tabela_mensal.value.rows
          IN  /\ tabela_mensal.raised = ""
              /\ m # <<>>
              /\ m[Len(m)].AnoMes = MonthOf(Len(Ledger))
              /\ Values(m[Len(m)]) = Values(Ledger[Len(Ledger)])
    /\ (AnnualCalled /\ ~IsEmpty(tabela_diaria)) =>
          LET a == tabela_anual.value.rows
          IN  /\ tabela_anual.raised = ""
              /\ a # <<>>
              /\ a[Len(a)].Ano = YearOf(Len(Ledger))
              /\ Values(a[Len(a)]) = Values(Ledger[Len(Ledger)])

\* Both tables made from a ledger whose final month holds two entries of
\* different values, after an earlier month.
C6_Witness ==
    /\ AnnualCalled
    /\ Len(Ledger) >= 3
    /\ MonthOf(Len(Ledger)) = MonthOf(Len(Ledger) - 1)
    /\ MonthOf(1) # MonthOf(Len(Ledger))
    /\ Values(Ledger[Len(Ledger)]) # Values(Ledger[Len(Ledger) - 1])
    /\ Len(tabela_mensal.value.rows) >= 2

\* C7: create_monthly_table and create_annual_table applied to an empty
\* ledger, the one the function returns for an empty series included, return
\* an empty table and raise nothing.
C7_EmptyLedgerEmptyTables ==
    /\ (MonthlyCalled /\ IsEmpty(tabela_diaria)) =>
          (tabela_mensal.raised = "" /\ tabela_mensal.value.rows = <<>>)
    /\ (AnnualCalled /\ IsEmpty(tabela_diaria)) =>
          (tabela_anual.raised = "" /\ tabela_anual.value.rows = <<>>)

\* What the script has shown.
Shown(kind) == \E k \in 1..Len(ui) : ui[k].kind = kind

\* C9: when the provider's reply is empty or failed, the handler shows a
\* warning and no simulation output (no table, no final total), and no
\* exception escapes.
C9_NoDataIsReported ==
    (pc = "done" /\ (response.kind = "error" \/ response.data = <<>>)) =>
        /\ exc = ""
        /\ Shown("warning")
        /\ ~Shown("dataframe")
        /\ ~Shown("success")
        /\ tabela_diaria.none \/ IsEmpty(tabela_diaria)
        /\ tabela_mensal = Unset
        /\ tabela_anual = Unset

====
